---- MODULE Spec2Model ----
(***************************************************************************)
(* Model of run.py: a producer task walks the corpus directories and puts  *)
(* every path whose name ends in "pdf" on a bounded asyncio queue, then    *)
(* puts queue.maxsize None sentinels; workers_num worker tasks get paths   *)
(* from the queue and run analyze on each; main waits for the tasks with   *)
(* FIRST_EXCEPTION, re-raises a task's exception, and otherwise prints the *)
(* report and writes the archives.                                         *)
(*                                                                         *)
(* Strings the code slices (file names, paths) are sequences of one        *)
(* character strings.  A step of the model is one resumption of one task   *)
(* of the event loop: the code between two awaits runs in one action.      *)
(***************************************************************************)
EXTENDS Integers, Sequences, FiniteSets, TLC

\* ------------------------------------------------------------------ bounds
MaxWorkers == 2     \* workers_num is drawn from 1..MaxWorkers
MaxFiles == 2       \* files in the corpus directories
MaxRuns == 2        \* consecutive executions of the script over one disk

\* ----------------------------------------------------------------- strings
RECURSIVE SeqToSet(_)
SeqToSet(s) == IF s = <<>> THEN {} ELSE {Head(s)} \cup SeqToSet(Tail(s))

\* list(a_set): some enumeration of the set, each element once
RECURSIVE SetToList(_)
SetToList(S) ==
  IF S = {} THEN <<>>
  ELSE LET x == CHOOSE y \in S : TRUE IN <<x>> \o SetToList(S \ {x})

\* str.endswith
endswith(s, suffix) ==
  /\ Len(s) >= Len(suffix)
  /\ SubSeq(s, Len(s) - Len(suffix) + 1, Len(s)) = suffix

\* os.path.join(root, name)
join(root, name) == root \o <<"/">> \o name

PdfSuffix == <<"p", "d", "f">>
TypesSuffix == <<"___TYPES___.json">>

\* pdf_path[:-4]: everything but the last four characters
DropLast4(s) == IF Len(s) <= 4 THEN <<>> ELSE SubSeq(s, 1, Len(s) - 4)

\* types_path = f"{pdf_path[:-4]}___TYPES___.json"
types_path(pdf_path) == DropLast4(pdf_path) \o TypesSuffix

\* ------------------------------------------------------------------ corpus
Crawled == <<"c", "r", "a", "w", "l", "e", "d">>
Pdfa == <<"p", "d", "f", "a">>
\* asyncio.run(main(["crawled", "pdfa"]))
directories == <<Crawled, Pdfa>>

\* file names found in the corpus
NameA == <<"a", ".", "p", "d", "f">>
NameAX == <<"a", "X", "p", "d", "f">>
NameB == <<"b", ".", "p", "d", "f">>
NameTxt == <<"n", ".", "t", "x", "t">>

\* byte strings the extraction regexes capture; BadTok holds a byte >= 0x80
BadTok == "Ari\\xe9l"
Tokens == {"image/png", "Arial", "Myriad", "beep", "Print"}

\* bytes.decode("ascii"): raises UnicodeDecodeError on a byte >= 0x80
CanDecodeAscii(tok) == tok # BadTok
\* bytes.decode("ascii", "ignore"): drops the bytes >= 0x80
DecodeIgnore(tok) == IF tok = BadTok THEN "Arial" ELSE tok

\* What the predicates and regexes of run.py find in a document: enc is
\* b"/Encrypt " in the original bytes, rc is qpdf's exit status, the other
\* fields are what each clue or regex finds in qpdf's output.
NoMatches ==
  [enc |-> FALSE, rc |-> 0, xfa |-> FALSE, jsclue |-> FALSE,
   tosource |-> FALSE, markinfo |-> FALSE, marked |-> FALSE,
   rectangle |-> FALSE, dynrender |-> FALSE, images |-> <<>>,
   typefaces |-> <<>>, fontfamilies |-> <<>>, hostfuncs |-> <<>>,
   menuitems |-> <<>>]

\* an XFA form: toSource appears but no JavaScript clue does
DocForm ==
  [NoMatches EXCEPT !.xfa = TRUE, !.tosource = TRUE, !.markinfo = TRUE,
                    !.marked = TRUE, !.dynrender = TRUE,
                    !.images = <<"image/png", "image/png">>,
                    !.hostfuncs = <<"beep">>]
\* an encrypted document with JavaScript
DocScript ==
  [NoMatches EXCEPT !.enc = TRUE, !.jsclue = TRUE, !.tosource = TRUE,
                    !.rectangle = TRUE, !.markinfo = TRUE,
                    !.typefaces = <<"Arial", "Myriad", BadTok>>,
                    !.fontfamilies = <<"Arial">>,
                    !.menuitems = <<"Print", "Print">>]
\* an encrypted document qpdf cannot uncompress
DocBroken == [NoMatches EXCEPT !.enc = TRUE, !.rc = 2]
\* a document whose embedded font family holds a non-ASCII byte
DocLatin1 == [NoMatches EXCEPT !.jsclue = TRUE, !.fontfamilies = <<BadTok>>]

Docs == {DocForm, DocScript, DocBroken, DocLatin1}

\* --------------------------------------------------------------- classifier
is_XFA(content) == content.xfa
is_JS(content) == content.jsclue
is_tagged(content) == content.markinfo /\ content.marked
is_using_rectangles(content) == content.rectangle
is_encrypted(content) == content.enc
is_purexfa(content) == content.dynrender

\* the record analyze starts from on a cache miss
EmptyTypes ==
  [x |-> 0, j |-> 0, s |-> 0, t |-> 0, r |-> 0, i |-> <<>>, f |-> <<>>,
   e |-> 0, p |-> 0, xh |-> <<>>, mi |-> <<>>]

\* the strict .decode("ascii") calls of lines 155-179 all succeed
DecodesCleanly(content) ==
  \A tok \in SeqToSet(content.images) \cup SeqToSet(content.fontfamilies)
             \cup SeqToSet(content.hostfuncs) \cup SeqToSet(content.menuitems) :
     CanDecodeAscii(tok)

\* a classifier whose toSource test is not nested under the JavaScript test
ClassifyJSFlat(types, content) ==
  [types EXCEPT !.j = IF is_JS(content) THEN 1 ELSE types.j,
                !.s = IF content.tosource THEN 1 ELSE types.s]

\* j and s as lines 183-186 set them
ClassifyJS(types, content) ==
  IF is_JS(content)
  THEN [types EXCEPT !.j = 1, !.s = IF content.tosource THEN 1 ELSE types.s]
  ELSE types

\* lines 155-192: the record built from qpdf's output, starting from types
\* (which already holds e)
Classify(types, content) ==
  LET used_fonts == {DecodeIgnore(tok) : tok \in SeqToSet(content.typefaces)}
      embedded_fonts == SeqToSet(content.fontfamilies)
      t1 == [types EXCEPT
               !.i = SetToList(SeqToSet(content.images)),
               !.f = SetToList(used_fonts \ embedded_fonts),
               !.xh = SetToList(SeqToSet(content.hostfuncs)),
               !.mi = SetToList(SeqToSet(content.menuitems)),
               !.x = IF is_XFA(content) THEN 1 ELSE types.x]
      t2 == ClassifyJS(t1, content)
  IN [t2 EXCEPT
        !.t = IF is_tagged(content) THEN 1 ELSE t2.t,
        !.r = IF is_using_rectangles(content) THEN 1 ELSE t2.r,
        !.p = IF is_purexfa(content) THEN 1 ELSE t2.p]

\* -------------------------------------------------------------- cache files
\* content of a sidecar file; body is meaningful for kind "json" only
Missing == [kind |-> "missing", body |-> EmptyTypes]
\* a file open(types_path, "w") has truncated and nothing was flushed to
Truncated == [kind |-> "truncated", body |-> EmptyTypes]
\* a file json.loads cannot decode
Garbage == [kind |-> "garbage", body |-> EmptyTypes]

\* json.dumps(types): the text holds the eleven keys with their values
json_dumps(types) == [kind |-> "json", body |-> types]
\* json.loads raises JSONDecodeError unless the text is one JSON document
json_decodes(text) == text.kind = "json"
json_loads(text) == text.body

\* a record left on disk by something other than this script's save: it
\* does not match what the classifier finds now, has s set without j, and
\* lists a token twice
StaleTypes ==
  [EmptyTypes EXCEPT !.x = 1, !.s = 1, !.i = <<"image/png", "image/png">>,
                     !.f = <<"Arial">>]

\* --------------------------------------------------------------- the state
None == <<>>            \* the sentinel; every path is a non-empty string

DirIdx == 1..Len(directories)
\* The corpus is static: Corpus[d] lists, in os.walk's order, the files
\* directory d may hold, and an execution finds some of them.  NameA and
\* NameAX differ in the fourth character from the end only.
Corpus ==
  <<<<[name |-> NameA, doc |-> DocForm],
      [name |-> NameAX, doc |-> DocScript],
      [name |-> NameB, doc |-> DocBroken],
      [name |-> NameTxt, doc |-> NoMatches]>>,
    <<[name |-> NameA, doc |-> DocLatin1],
      [name |-> NameB, doc |-> DocScript]>>>>
ValidSlots ==
  UNION {{<<d, k>> : k \in 1..Len(Corpus[d])} : d \in DirIdx}
AllPaths == {join(directories[sl[1]], Corpus[sl[1]][sl[2]].name) : sl \in ValidSlots}
AllSidecars == {types_path(p) : p \in AllPaths}

\* what an earlier execution may have left in a sidecar before the first
\* execution of the model: an undecodable text next to the documents of
\* pdfa, a stale record next to those of crawled
Leftover(sidecar) ==
  IF \E name \in {NameA, NameB} : sidecar = types_path(join(Pdfa, name))
  THEN Garbage
  ELSE json_dumps(StaleTypes)

VARIABLES
  tree,           \* disk: directory index -> the files os.walk lists there
  fs,             \* disk: sidecar path -> content
  run,            \* number of the current execution of the script
  workers_num,    \* min(32, os.cpu_count() + 4)
  queue,          \* asyncio.Queue(workers_num): the items, oldest first
  paths,          \* producer's local list
  ppc,            \* producer's position
  pidx,           \* producer: number of puts completed in the current loop
  wpc,            \* worker -> position
  wpath,          \* worker -> pdf_path of the analyze call in progress
  wtypes,         \* worker -> the local dict types
  mainpc,         \* main's position
  output,         \* what main has printed and written
  xfa, js, tosource, tagged, rectangles, encrypted, purexfa,
  image_types, fonts, xfa_host_funcs, exec_menu_item_items,
  calls,          \* history: path -> number of analyze(path) calls this run
  sentinels,      \* history: worker -> number of None items it dequeued
  spawned,        \* history: paths qpdf was launched for this run
  pdf_reads,      \* history: paths whose bytes were read this run
  loads,          \* history: <<path, text>> of every sidecar read this run
  saves,          \* history: paths whose sidecar was opened "w" this run
  recorded,       \* history: path -> <<types>> folded into the aggregate
  prev            \* history: how the previous execution ended

lists == <<xfa, js, tosource, tagged, rectangles, encrypted, purexfa>>
counters == <<image_types, fonts, xfa_host_funcs, exec_menu_item_items>>
aggregate == <<lists, counters>>
disk == <<tree, fs>>
prod == <<paths, ppc, pidx>>
work == <<wpc, wpath, wtypes>>
hist == <<calls, sentinels, spawned, pdf_reads, loads, saves, recorded>>
vars == <<disk, run, workers_num, queue, prod, work, mainpc, output,
          aggregate, hist, prev>>

\* a main that creates one worker task too many
OneMoreWorker == 1..(workers_num + 1)

\* line 256: one worker task for each number in range(workers_num)
Workers == 1..workers_num

\* collections.Counter(): every token counts 0 until incremented
EmptyCounter == [tok \in Tokens |-> 0]
NoOutput == [printed |-> FALSE, archives |-> <<>>]
NoPrev ==
  [completed |-> FALSE, members |-> <<>>, counts |-> <<>>, cached |-> {}]

\* ------------------------------------------------------------------- disk
\* the files of directory d when the slots S of the corpus exist
Listing(d, S) ==
  SelectSeq(Corpus[d],
            LAMBDA entry : \E k \in 1..Len(Corpus[d]) :
                             <<d, k>> \in S /\ Corpus[d][k] = entry)

Trees ==
  { [d \in DirIdx |-> Listing(d, S)] :
      S \in {T \in SUBSET ValidSlots : Cardinality(T) <= MaxFiles} }

\* lines 234-241: the paths producer collects from a tree
RECURSIVE WalkDir(_, _)
WalkDir(root, files) ==
  IF files = <<>> THEN <<>>
  ELSE (IF endswith(Head(files).name, PdfSuffix)
        THEN <<join(root, Head(files).name)>> ELSE <<>>)
       \o WalkDir(root, Tail(files))

RECURSIVE Walk(_, _)
Walk(t, d) ==
  IF d > Len(directories) THEN <<>>
  ELSE WalkDir(directories[d], t[d]) \o Walk(t, d + 1)

Discovered(t) == SeqToSet(Walk(t, 1))

\* the document stored at a path of the tree
DocAt(t, path) ==
  LET d == CHOOSE x \in DirIdx :
             \E n \in 1..Len(t[x]) : join(directories[x], t[x][n].name) = path
      n == CHOOSE m \in 1..Len(t[d]) : join(directories[d], t[d][m].name) = path
  IN t[d][n].doc

\* ------------------------------------------------------------------- Init
\* the state of one execution before its tasks have run
Fresh ==
  /\ queue = <<>>
  /\ paths = <<>>
  /\ ppc = "walk"
  /\ pidx = 0
  /\ wpc = [w \in Workers |-> "get"]
  /\ wpath = [w \in Workers |-> None]
  /\ wtypes = [w \in Workers |-> EmptyTypes]
  /\ mainpc = "wait"
  /\ output = NoOutput
  /\ xfa = <<>> /\ js = <<>> /\ tosource = <<>> /\ tagged = <<>>
  /\ rectangles = <<>> /\ encrypted = <<>> /\ purexfa = <<>>
  /\ image_types = EmptyCounter /\ fonts = EmptyCounter
  /\ xfa_host_funcs = EmptyCounter /\ exec_menu_item_items = EmptyCounter
  /\ calls = [p \in AllPaths |-> 0]
  /\ sentinels = [w \in Workers |-> 0]
  /\ spawned = {}
  /\ pdf_reads = {}
  /\ loads = {}
  /\ saves = {}
  /\ recorded = [p \in AllPaths |-> <<>>]

Init ==
  /\ tree \in Trees
  /\ fs \in {g \in [AllSidecars -> {Missing, Garbage, json_dumps(StaleTypes)}] :
               \A sc \in AllSidecars :
                 /\ g[sc] \in {Missing, Leftover(sc)}
                 /\ (\A p \in Discovered(tree) : types_path(p) # sc)
                      => g[sc] = Missing}
  /\ run = 1
  /\ workers_num \in 1..MaxWorkers
  /\ prev = NoPrev
  /\ Fresh

\* --------------------------------------------------------------- producer
\* a queue created with room for two items per worker
TwiceWorkers == 2 * workers_num

\* queue.maxsize: asyncio.Queue(workers_num)
maxsize == workers_num
full == Len(queue) >= maxsize

\* a producer that poisons one receiver too few
PoisonOneLess == maxsize - 1
\* a producer that poisons one receiver too many
PoisonOneMore == maxsize + 1

\* the number of None items producer puts: range(queue.maxsize)
PoisonCount == maxsize

\* tasks run only while main awaits asyncio.wait
Running == mainpc = "wait"

\* a queue that hands out the newest item first (asyncio.LifoQueue)
put_lifo(q, item) == <<item>> \o q

\* asyncio.Queue._put: the item joins the end of the deque, and _get takes
\* the items from its front
put_nowait(q, item) == Append(q, item)

\* lines 243-248 from the put producer is about to make (phase "put": the
\* put of paths[idx + 1]; phase "poison": the put of None number idx + 1) up
\* to the put that finds the queue full, where producer is suspended, or to
\* the end of producer.  queue.put does not suspend while there is room.
RECURSIVE Fill(_, _, _, _)
Fill(q, phase, idx, ps) ==
  IF phase = "put"
  THEN IF idx >= Len(ps) THEN Fill(q, "poison", 0, ps)
       ELSE IF Len(q) >= maxsize THEN [queue |-> q, ppc |-> "put", pidx |-> idx]
       ELSE Fill(put_nowait(q, ps[idx + 1]), "put", idx + 1, ps)
  ELSE IF idx >= PoisonCount THEN [queue |-> q, ppc |-> "done", pidx |-> idx]
       ELSE IF Len(q) >= maxsize
       THEN [queue |-> q, ppc |-> "poison", pidx |-> idx]
       ELSE Fill(put_nowait(q, None), "poison", idx + 1, ps)

\* lines 234-248: producer's first step walks the directories (no await)
\* and puts items until the queue is full
ProducerWalk ==
  /\ Running /\ ppc = "walk"
  /\ paths' = Walk(tree, 1)
  /\ LET after == Fill(queue, "put", 0, paths') IN
       queue' = after.queue /\ ppc' = after.ppc /\ pidx' = after.pidx
  /\ UNCHANGED <<disk, run, workers_num, work, mainpc, output, aggregate,
                 hist, prev>>

\* lines 243-248: a put that waited for room completes, and producer goes
\* on until the queue is full again
ProducerPut ==
  /\ Running /\ ppc \in {"put", "poison"} /\ ~full
  /\ LET after == Fill(queue, ppc, pidx, paths) IN
       queue' = after.queue /\ ppc' = after.ppc /\ pidx' = after.pidx
  /\ UNCHANGED <<disk, run, workers_num, paths, work, mainpc, output,
                 aggregate, hist, prev>>

\* -------------------------------------------------------------- aggregator
\* a loop that assigns 1 instead of adding 1
RECURSIVE CountAssign(_, _)
CountAssign(counter, toks) ==
  IF toks = <<>> THEN counter
  ELSE CountAssign([counter EXCEPT ![Head(toks)] = 1], Tail(toks))

\* for tok in toks: counter[tok] += 1
RECURSIVE CountAll(_, _)
CountAll(counter, toks) ==
  IF toks = <<>> THEN counter
  ELSE CountAll([counter EXCEPT ![Head(toks)] = @ + 1], Tail(toks))

\* an aggregator that puts the path in front: a_list.insert(0, pdf_path)
PrependIf(a_list, flag, pdf_path) ==
  IF flag # 0 THEN <<pdf_path>> \o a_list ELSE a_list

\* if flag: a_list.append(pdf_path)
AppendIf(a_list, flag, pdf_path) ==
  IF flag # 0 THEN Append(a_list, pdf_path) ELSE a_list

\* an aggregator whose test of types["s"] is not nested under types["j"]
RecordJSFlat(types, pdf_path) ==
  /\ js' = AppendIf(js, types.j, pdf_path)
  /\ tosource' = AppendIf(tosource, types.s, pdf_path)

\* lines 199-202: js and tosource
RecordJS(types, pdf_path) ==
  /\ js' = AppendIf(js, types.j, pdf_path)
  /\ tosource' = IF types.j # 0 THEN AppendIf(tosource, types.s, pdf_path)
                 ELSE tosource

\* lines 212-222: the four frequency tables
RecordCounters(types) ==
  /\ image_types' = CountAll(image_types, types.i)
  /\ fonts' = CountAll(fonts, types.f)
  /\ xfa_host_funcs' = CountAll(xfa_host_funcs, types.xh)
  /\ exec_menu_item_items' = CountAll(exec_menu_item_items, types.mi)

\* an analyze that is suspended after line 210 and never reaches line 212
RecordListsOnly(types, pdf_path) ==
  /\ xfa' = AppendIf(xfa, types.x, pdf_path)
  /\ RecordJS(types, pdf_path)
  /\ tagged' = AppendIf(tagged, types.t, pdf_path)
  /\ rectangles' = AppendIf(rectangles, types.r, pdf_path)
  /\ encrypted' = AppendIf(encrypted, types.e, pdf_path)
  /\ purexfa' = AppendIf(purexfa, types.p, pdf_path)
  /\ UNCHANGED counters
  /\ recorded' = [recorded EXCEPT ![pdf_path] = Append(@, types)]

\* lines 197-222: fold the record of pdf_path into the accumulators; the
\* code holds no await between line 197 and the return
Record(types, pdf_path) ==
  /\ xfa' = AppendIf(xfa, types.x, pdf_path)
  /\ RecordJS(types, pdf_path)
  /\ tagged' = AppendIf(tagged, types.t, pdf_path)
  /\ rectangles' = AppendIf(rectangles, types.r, pdf_path)
  /\ encrypted' = AppendIf(encrypted, types.e, pdf_path)
  /\ purexfa' = AppendIf(purexfa, types.p, pdf_path)
  /\ RecordCounters(types)
  /\ recorded' = [recorded EXCEPT ![pdf_path] = Append(@, types)]

\* ------------------------------------------------------------------ worker
\* lines 227-230 with an item in the queue: queue.get returns it without
\* suspending; None ends the loop, any other item is passed to analyze,
\* which runs up to its first await (line 112)
Dequeue(w) ==
  /\ queue' = Tail(queue)
  /\ wtypes' = [wtypes EXCEPT ![w] = EmptyTypes]
  /\ IF Head(queue) = None
     THEN /\ wpc' = [wpc EXCEPT ![w] = "done"]
          /\ wpath' = [wpath EXCEPT ![w] = None]
          /\ sentinels' = [sentinels EXCEPT ![w] = @ + 1]
          /\ UNCHANGED calls
     ELSE /\ wpc' = [wpc EXCEPT ![w] = "load_open"]
          /\ wpath' = [wpath EXCEPT ![w] = Head(queue)]
          /\ calls' = [calls EXCEPT ![Head(queue)] = @ + 1]
          /\ UNCHANGED sentinels

\* analyze returns to the loop of worker (line 226), its locals are gone,
\* and queue.get is called: it suspends the worker only if the queue is
\* empty
Return(w) ==
  IF queue = <<>>
  THEN /\ wpc' = [wpc EXCEPT ![w] = "get"]
       /\ wpath' = [wpath EXCEPT ![w] = None]
       /\ wtypes' = [wtypes EXCEPT ![w] = EmptyTypes]
       /\ UNCHANGED <<queue, calls, sentinels>>
  ELSE Dequeue(w)

\* line 227: a worker suspended in queue.get (or not started yet) takes an
\* item
WorkerGet(w) ==
  /\ Running /\ wpc[w] = "get" /\ queue # <<>>
  /\ Dequeue(w)
  /\ UNCHANGED <<disk, run, workers_num, prod, mainpc, output, aggregate,
                 spawned, pdf_reads, loads, saves, recorded, prev>>

\* line 112: aiofiles.open(types_path, "r"); FileNotFoundError enters the
\* except block (lines 115-127)
LoadOpen(w) ==
  /\ Running /\ wpc[w] = "load_open"
  /\ IF fs[types_path(wpath[w])].kind = "missing"
     THEN /\ wpc' = [wpc EXCEPT ![w] = "read_pdf"]
          /\ wtypes' = [wtypes EXCEPT ![w] = EmptyTypes]
     ELSE /\ wpc' = [wpc EXCEPT ![w] = "load_read"]
          /\ UNCHANGED wtypes
  /\ UNCHANGED <<disk, run, workers_num, queue, prod, wpath, mainpc, output,
                 aggregate, hist, prev>>

\* an analyze that decompresses the document although its record was loaded
AfterLoadRecompute(text) == IF json_decodes(text) THEN "read_pdf" ELSE "failed"

\* lines 111-114 once the text is read: json.loads returns the record, or
\* raises an exception that is no FileNotFoundError and leaves the task
AfterLoad(text) == IF json_decodes(text) THEN "load_close" ELSE "failed"

\* line 113: types = json.loads(await f.read())
LoadRead(w) ==
  /\ Running /\ wpc[w] = "load_read"
  /\ LET text == fs[types_path(wpath[w])] IN
       /\ loads' = loads \cup {<<wpath[w], text>>}
       /\ wpc' = [wpc EXCEPT ![w] = AfterLoad(text)]
       /\ wtypes' = [wtypes EXCEPT ![w] =
                       IF AfterLoad(text) = "load_close" THEN json_loads(text)
                       ELSE @]
  /\ UNCHANGED <<disk, run, workers_num, queue, prod, wpath, mainpc, output,
                 aggregate, calls, sentinels, spawned, pdf_reads, saves,
                 recorded, prev>>

\* the file of line 112 is closed, then lines 197-222 run
LoadClose(w) ==
  /\ Running /\ wpc[w] = "load_close"
  /\ Record(wtypes[w], wpath[w])
  /\ Return(w)
  /\ UNCHANGED <<disk, run, workers_num, prod, mainpc, output, spawned,
                 pdf_reads, loads, saves, prev>>

\* lines 129-143: the document's bytes are read, the encryption marker is
\* looked for in them, and qpdf is started.  The awaits in between touch
\* nothing another task reads or writes.
Spawn(w) ==
  /\ Running /\ wpc[w] = "read_pdf"
  /\ pdf_reads' = pdf_reads \cup {wpath[w]}
  /\ wtypes' = [wtypes EXCEPT ![w] =
                  IF is_encrypted(DocAt(tree, wpath[w]))
                  THEN [@ EXCEPT !.e = 1] ELSE @]
  /\ spawned' = spawned \cup {wpath[w]}
  /\ wpc' = [wpc EXCEPT ![w] = "communicate"]
  /\ UNCHANGED <<disk, run, workers_num, queue, prod, wpath, mainpc, output,
                 aggregate, calls, sentinels, loads, saves, recorded, prev>>

\* an analyze that goes from the classification straight to line 197,
\* without lines 194-195
AfterQpdfNoSave(doc) ==
  IF doc.rc # 0 THEN "return"
  ELSE IF ~DecodesCleanly(doc) THEN "failed"
  ELSE "load_close"

\* an analyze without the check of proc.returncode
AfterQpdfUnchecked(doc) ==
  IF ~DecodesCleanly(doc) THEN "failed" ELSE "save_open"

\* lines 147-192: a non-zero exit status returns from analyze (line 153);
\* otherwise the record is built, and a strict decode that fails raises
\* UnicodeDecodeError
AfterQpdf(doc) ==
  IF doc.rc # 0 THEN "return"
  ELSE IF ~DecodesCleanly(doc) THEN "failed"
  ELSE "save_open"

\* lines 145-192: qpdf has exited
Communicate(w) ==
  /\ Running /\ wpc[w] = "communicate"
  /\ LET doc == DocAt(tree, wpath[w]) IN
       CASE AfterQpdf(doc) = "return" -> Return(w)
         [] AfterQpdf(doc) = "failed" ->
              /\ wpc' = [wpc EXCEPT ![w] = "failed"]
              /\ UNCHANGED <<queue, wpath, wtypes, calls, sentinels>>
         [] OTHER ->
              /\ wtypes' = [wtypes EXCEPT ![w] = Classify(@, doc)]
              /\ wpc' = [wpc EXCEPT ![w] = AfterQpdf(doc)]
              /\ UNCHANGED <<queue, wpath, calls, sentinels>>
  /\ UNCHANGED <<disk, run, workers_num, prod, mainpc, output, aggregate,
                 spawned, pdf_reads, loads, saves, recorded, prev>>

\* lines 194-195: aiofiles.open(types_path, "w") creates or truncates the
\* file, and f.write puts the text in the file object's buffer
SaveOpen(w) ==
  /\ Running /\ wpc[w] = "save_open"
  /\ fs' = [fs EXCEPT ![types_path(wpath[w])] = Truncated]
  /\ saves' = saves \cup {wpath[w]}
  /\ wpc' = [wpc EXCEPT ![w] = "save_close"]
  /\ UNCHANGED <<tree, run, workers_num, queue, prod, wpath, wtypes, mainpc,
                 output, aggregate, calls, sentinels, spawned, pdf_reads,
                 loads, recorded, prev>>

\* leaving the with block of line 194 closes the file, which flushes the
\* buffer to it; then lines 197-222 run
SaveClose(w) ==
  /\ Running /\ wpc[w] = "save_close"
  /\ fs' = [fs EXCEPT ![types_path(wpath[w])] = json_dumps(wtypes[w])]
  /\ Record(wtypes[w], wpath[w])
  /\ Return(w)
  /\ UNCHANGED <<tree, run, workers_num, prod, mainpc, output, spawned,
                 pdf_reads, loads, saves, prev>>

\* -------------------------------------------------------------------- main
\* future.done() of the futures of line 255
ProducerSettled == ppc \in {"done", "cancelled"}
WorkerSettled(w) == wpc[w] \in {"done", "failed", "cancelled"}
AllSettled == ProducerSettled /\ \A w \in Workers : WorkerSettled(w)

\* a main that asks only futures[0], the producer, for its result
RaisersProducerOnly == {}

\* the done futures whose result() raises (lines 259-261); producer holds
\* no statement that raises once it runs
Raisers == {w \in Workers : wpc[w] = "failed"}

\* tagged[-42:]
TailSample == 42
LastOf(a_list, n) ==
  IF Len(a_list) <= n THEN a_list
  ELSE SubSeq(a_list, Len(a_list) - n + 1, Len(a_list))

\* lines 263-287: the printed counts and the three archives
Report ==
  [printed |-> TRUE,
   archives |-> <<xfa, js, LastOf(tagged, TailSample)>>]

\* asyncio.wait with return_when=FIRST_COMPLETED
WaitFirstCompleted ==
  ProducerSettled \/ \E w \in Workers : WorkerSettled(w)

\* line 258: asyncio.wait(futures, return_when=FIRST_EXCEPTION) returns
\* once a task has raised or all tasks are done
WaitReturns ==
  \/ \E w \in Workers : wpc[w] = "failed"
  \/ AllSettled

\* lines 258-287: asyncio.wait(FIRST_EXCEPTION) returns once a task has
\* raised or all have finished; result() of a done future re-raises its
\* exception, and only if none does are the report and archives written
MainResume ==
  /\ mainpc = "wait"
  /\ WaitReturns
  /\ IF Raisers # {}
     THEN mainpc' = "raised" /\ UNCHANGED output
     ELSE mainpc' = "finished" /\ output' = Report
  /\ UNCHANGED <<disk, run, workers_num, queue, prod, work, aggregate, hist,
                 prev>>

\* asyncio.run cancels the tasks still pending when main has raised; each
\* gets CancelledError at the await it is suspended in, and none of them
\* runs a step of its own any more (tasks are taken here in the order of
\* the list futures)
CancelProducer ==
  /\ mainpc = "raised" /\ ~ProducerSettled
  /\ ppc' = "cancelled"
  /\ UNCHANGED <<disk, run, workers_num, queue, paths, pidx, work, mainpc,
                 output, aggregate, hist, prev>>

\* What a cancelled save leaves in the sidecar.  The open, write and close
\* calls run in a thread of the executor: a call the executor has not
\* started is dropped, and a text that reached the buffer is flushed when
\* the file is closed.
CancelledSave(w) ==
  LET now == fs[types_path(wpath[w])] IN
  CASE wpc[w] = "save_open" -> {now, Truncated}
    [] wpc[w] = "save_close" -> {now, json_dumps(wtypes[w])}
    [] OTHER -> {now}

CancelWorker(w) ==
  /\ mainpc = "raised" /\ ~WorkerSettled(w)
  /\ ProducerSettled /\ \A v \in 1..(w - 1) : WorkerSettled(v)
  /\ wpc' = [wpc EXCEPT ![w] = "cancelled"]
  /\ IF wpath[w] = None
     THEN UNCHANGED fs
     ELSE \E text \in CancelledSave(w) :
            fs' = [fs EXCEPT ![types_path(wpath[w])] = text]
  /\ UNCHANGED <<tree, run, workers_num, queue, prod, wpath, wtypes, mainpc,
                 output, aggregate, hist, prev>>

\* ---------------------------------------------------------- the next run
Ended == mainpc = "finished" \/ (mainpc = "raised" /\ AllSettled)

Cached == {p \in Discovered(tree) : fs[types_path(p)].kind = "json"}

Members == <<SeqToSet(xfa), SeqToSet(js), SeqToSet(tosource),
             SeqToSet(tagged), SeqToSet(rectangles), SeqToSet(encrypted),
             SeqToSet(purexfa)>>

\* the script is executed again over the same disk: the module-level
\* accumulators (lines 91-101) and the tasks start afresh
NewRun ==
  /\ Ended /\ run < MaxRuns
  /\ run' = run + 1
  /\ prev' = [completed |-> mainpc = "finished", members |-> Members,
              counts |-> counters, cached |-> Cached]
  /\ queue' = <<>> /\ paths' = <<>> /\ ppc' = "walk" /\ pidx' = 0
  /\ wpc' = [w \in Workers |-> "get"]
  /\ wpath' = [w \in Workers |-> None]
  /\ wtypes' = [w \in Workers |-> EmptyTypes]
  /\ mainpc' = "wait" /\ output' = NoOutput
  /\ xfa' = <<>> /\ js' = <<>> /\ tosource' = <<>> /\ tagged' = <<>>
  /\ rectangles' = <<>> /\ encrypted' = <<>> /\ purexfa' = <<>>
  /\ image_types' = EmptyCounter /\ fonts' = EmptyCounter
  /\ xfa_host_funcs' = EmptyCounter /\ exec_menu_item_items' = EmptyCounter
  /\ calls' = [p \in AllPaths |-> 0]
  /\ sentinels' = [w \in Workers |-> 0]
  /\ spawned' = {} /\ pdf_reads' = {} /\ loads' = {} /\ saves' = {}
  /\ recorded' = [p \in AllPaths |-> <<>>]
  /\ UNCHANGED <<disk, workers_num>>

\* ------------------------------------------------------- specifications
Next ==
  \/ ProducerWalk
  \/ ProducerPut
  \/ \E w \in Workers : WorkerGet(w)
  \/ \E w \in Workers : LoadOpen(w)
  \/ \E w \in Workers : LoadRead(w)
  \/ \E w \in Workers : LoadClose(w)
  \/ \E w \in Workers : Spawn(w)
  \/ \E w \in Workers : Communicate(w)
  \/ \E w \in Workers : SaveOpen(w)
  \/ \E w \in Workers : SaveClose(w)
  \/ MainResume
  \/ CancelProducer
  \/ \E w \in Workers : CancelWorker(w)

NextRuns == Next \/ NewRun

\* one execution of the script
Spec == Init /\ [][Next]_vars

\* the event loop resumes a task that can run, and qpdf exits
FairSpec == Spec /\ WF_vars(Next)

\* MaxRuns executions over one disk
RunsSpec == Init /\ [][NextRuns]_vars

\* ------------------------------------------------------------- properties
Count(a_list, x) == Cardinality({k \in 1..Len(a_list) : a_list[k] = x})
Enqueued == SeqToSet(paths)
InAnalyze(w) ==
  wpc[w] \in {"load_open", "load_read", "load_close", "read_pdf",
              "communicate", "save_open", "save_close"}
AllWorkersDone == \A w \in Workers : wpc[w] = "done"
SomeWorkerFailed == \E w \in Workers : wpc[w] = "failed"

AtMostOnce == \A p \in AllPaths : calls[p] <= 1
ExactlyOnceAtEnd ==
  AllWorkersDone =>
    /\ ppc = "done"
    /\ \A p \in AllPaths : calls[p] = IF p \in Enqueued THEN 1 ELSE 0
Terminated == ppc = "done" /\ AllWorkersDone

\* C1: in an execution where the event loop resumes every task that can run
\* and qpdf always exits, no path is passed to analyze twice, and unless a
\* task raises a fatal error the producer and every worker terminate with
\* every enqueued path passed to analyze exactly once; in particular no
\* state is reached where a task waits on the queue forever.
C1_ExactlyOnceAndTerminates ==
  /\ [](AtMostOnce /\ ExactlyOnceAtEnd)
  /\ <>(SomeWorkerFailed \/ Terminated)

C1_Witness ==
  /\ Terminated /\ workers_num = 2 /\ Len(paths) = 2
  /\ \A p \in Enqueued : calls[p] = 1

NonesIn(q) == Count(q, None)
RECURSIVE SumOver(_, _)
SumOver(f, S) ==
  IF S = {} THEN 0
  ELSE LET x == CHOOSE y \in S : TRUE IN f[x] + SumOver(f, S \ {x})
NonesPut == NonesIn(queue) + SumOver(sentinels, Workers)

\* C2: a None is put only when every path of producer's list has been put;
\* producer puts workers_num of them in all; a worker dequeues at most one
\* None, and has left its loop exactly when it has dequeued one; analyze is
\* only ever running on a path of producer's list, never on None; and when
\* every worker has left its loop the queue is empty.
C2_TerminationProtocol ==
  /\ NonesPut > 0 =>
       \A p \in Enqueued : calls[p] > 0 \/ Count(queue, p) > 0
  /\ \A a, b \in 1..Len(queue) : (a < b /\ queue[a] = None) => queue[b] = None
  /\ NonesPut <= workers_num
  /\ ppc = "done" => NonesPut = workers_num
  /\ \A w \in Workers :
       /\ sentinels[w] <= 1
       /\ (wpc[w] = "done") <=> (sentinels[w] = 1)
       /\ InAnalyze(w) => wpath[w] \in Enqueued /\ wpath[w] # None
  /\ AllWorkersDone => queue = <<>>

C2_Witness ==
  /\ AllWorkersDone /\ workers_num = 2 /\ Len(paths) = 2 /\ queue = <<>>
  /\ \A w \in Workers : sentinels[w] = 1

\* C3: once a worker has raised, the report is never printed and no archive
\* is written, whatever the other tasks do; main leaves asyncio.wait by
\* raising exactly when a task has raised, and a finished report means that
\* the producer and all workers ended without an exception.
C3_FailFast ==
  /\ SomeWorkerFailed => output = NoOutput /\ mainpc \in {"wait", "raised"}
  /\ mainpc = "raised" => SomeWorkerFailed
  /\ output.printed => mainpc = "finished" /\ Terminated

C3_Witness ==
  /\ mainpc = "raised" /\ output = NoOutput
  /\ workers_num = 2 /\ \E w \in Workers : wpc[w] # "failed"
  /\ xfa # <<>>

InSomeList(p) ==
  \E a_list \in {xfa, js, tosource, tagged, rectangles, encrypted, purexfa} :
    Count(a_list, p) > 0
QpdfFailed(p) == p \in spawned /\ DocAt(tree, p).rc # 0
Holds(w, p) == InAnalyze(w) /\ wpath[w] = p

\* C4: a document whose qpdf exited non-zero is in no membership list, has
\* no record folded into the accumulators, and its analyze neither opened
\* the sidecar for writing nor is about to; the exit status makes no worker
\* raise: a worker that has raised in analyze after qpdf ran holds a
\* document whose qpdf exited 0.  While no record has been folded in, the
\* lists are empty and the frequency tables count nothing.
C4_FailureIsSkipped ==
  /\ \A p \in AllPaths :
       QpdfFailed(p) =>
         /\ ~InSomeList(p)
         /\ recorded[p] = <<>>
         /\ p \notin saves
         /\ \A w \in Workers :
              wpath[w] = p => wpc[w] \notin {"save_open", "save_close", "failed"}
  /\ (\A p \in AllPaths : recorded[p] = <<>>) =>
       /\ \A p \in AllPaths : ~InSomeList(p)
       /\ \A k \in 1..4 : counters[k] = EmptyCounter

\* the only worker has returned from the analyze of a document qpdf failed
\* on and has folded in the record of another document since
C4_Witness ==
  /\ workers_num = 1
  /\ \E p, q \in AllPaths :
       /\ QpdfFailed(p) /\ \A w \in Workers : wpath[w] # p
       /\ q # p /\ q \in spawned /\ recorded[q] # <<>>

\* C5: no worker raises in the analyze of a document whose sidecar was read
\* and could not be decoded.
C5_CorruptionIsMiss ==
  \A w \in Workers : \A l \in loads :
    (wpc[w] = "failed" /\ wpath[w] = l[1]) => json_decodes(l[2])

\* C6: for a document whose sidecar was read and decoded, qpdf is not
\* started, the document's bytes are not read, the sidecar is not opened for
\* writing, and what is folded into the accumulators is the decoded record.
C6_HitBypassesPipeline ==
  \A l \in loads :
    json_decodes(l[2]) =>
      /\ l[1] \notin spawned
      /\ l[1] \notin pdf_reads
      /\ l[1] \notin saves
      /\ recorded[l[1]] \in {<<>>, <<json_loads(l[2])>>}

C6_Witness ==
  \E l \in loads :
    /\ json_decodes(l[2]) /\ recorded[l[1]] = <<json_loads(l[2])>>
    /\ InSomeList(l[1])

\* C7: an execution that follows a completed execution over the same disk
\* ends with the same members in every list and the same counts in every
\* table, and starts qpdf for no document that had a sidecar record when the
\* earlier execution ended.
C7_Idempotent ==
  (run > 1 /\ prev.completed /\ mainpc = "finished") =>
    /\ Members = prev.members
    /\ counters = prev.counts
    /\ spawned \cap prev.cached = {}

\* C8: no two distinct paths passed to analyze in one execution have the
\* same sidecar.
C8_OwnSidecar ==
  \A p, q \in AllPaths :
    (calls[p] > 0 /\ calls[q] > 0 /\ p # q) => types_path(p) # types_path(q)

OwnSidecars ==
  \A p, q \in Discovered(tree) : p # q => types_path(p) # types_path(q)

\* C9, on the disks where every document has a sidecar of its own: no read
\* of a sidecar returns the empty text of a file that a save has opened and
\* not yet written, in the execution of the save or in a later one.
C9_NoTornLoad ==
  OwnSidecars => \A l \in loads : l[2] # Truncated

\* the number of records folded in for path p that have the flag
Flagged(p, Flag(_)) ==
  Cardinality({k \in 1..Len(recorded[p]) : Flag(recorded[p][k])})
ListWhole(a_list, Flag(_)) ==
  /\ \A i \in 1..Len(a_list) : recorded[a_list[i]] # <<>>
  /\ \A p \in AllPaths :
       recorded[p] = <<>> \/ Count(a_list, p) = Flagged(p, Flag)

\* the number of times tok occurs in the lists Field of the records folded
\* in for path p
Tally(p, tok, Field(_)) ==
  SumOver([k \in 1..Len(recorded[p]) |-> Count(Field(recorded[p][k]), tok)],
          1..Len(recorded[p]))
CounterWhole(counter, Field(_)) ==
  LET folded == {p \in AllPaths : recorded[p] # <<>>}
  IN  \A tok \in Tokens :
        counter[tok] = SumOver([p \in folded |-> Tally(p, tok, Field)], folded)

\* C10: in every state each document has contributed to the accumulators
\* either nothing or everything its record calls for: a path is in a
\* membership list exactly when a folded-in record of it has the list's
\* flag, and every table counts exactly the tokens of the folded-in records.
C10_WholeContributions ==
  /\ \A p \in AllPaths : Len(recorded[p]) <= 1
  /\ ListWhole(xfa, LAMBDA r : r.x # 0)
  /\ ListWhole(js, LAMBDA r : r.j # 0)
  /\ ListWhole(tosource, LAMBDA r : r.j # 0 /\ r.s # 0)
  /\ ListWhole(tagged, LAMBDA r : r.t # 0)
  /\ ListWhole(rectangles, LAMBDA r : r.r # 0)
  /\ ListWhole(encrypted, LAMBDA r : r.e # 0)
  /\ ListWhole(purexfa, LAMBDA r : r.p # 0)
  /\ CounterWhole(image_types, LAMBDA r : r.i)
  /\ CounterWhole(fonts, LAMBDA r : r.f)
  /\ CounterWhole(xfa_host_funcs, LAMBDA r : r.xh)
  /\ CounterWhole(exec_menu_item_items, LAMBDA r : r.mi)

\* two workers have each folded in a record with tokens, and a third
\* document is not folded in yet
C10_Witness ==
  /\ workers_num = 2
  /\ \E p, q \in AllPaths :
       /\ p # q /\ recorded[p] # <<>> /\ recorded[q] # <<>>
       /\ recorded[p][1].i # <<>> /\ recorded[q][1].mi # <<>>
  /\ Cardinality({tok \in Tokens : image_types[tok] > 0}) > 0

\* no path waits in the queue and no worker is inside analyze
NothingPending ==
  /\ \A k \in 1..Len(queue) : queue[k] = None
  /\ \A w \in Workers : ~InAnalyze(w)

\* C11: the report is produced by a single step of main, taken when the
\* producer and every worker have finished, no path is queued and no worker
\* is inside analyze, and it is never produced again or changed afterwards;
\* and in an execution where the event loop resumes every task that can run
\* and no worker raises, the report is eventually produced.
C11_FinalizeOnce ==
  /\ [][output' # output =>
          /\ ~output.printed /\ output'.printed
          /\ Terminated /\ queue = <<>> /\ NothingPending]_vars
  /\ [](output.printed => mainpc = "finished" /\ NothingPending)
  /\ <>(SomeWorkerFailed \/ output.printed)

C11_Witness ==
  /\ output.printed /\ workers_num = 2 /\ Len(paths) = 2
  /\ \A p \in Enqueued : calls[p] = 1
  /\ output.archives[1] # <<>>

\* the number of queue.put calls of producer that have completed
PutsDone(pc, idx, ps) ==
  CASE pc = "walk" -> 0
    [] pc = "put" -> idx
    [] OTHER -> Len(ps) + idx
\* a is what is left of b after some items were taken from its front
IsSuffix(a, b) == \E k \in 0..Len(b) : a = SubSeq(b, k + 1, Len(b))
\* the items producer puts, in the order of its puts
PutOrder == paths \o [k \in 1..workers_num |-> None]

\* C12: the queue never holds more than workers_num items; in every step
\* either the queue only loses items from its front while producer does not
\* advance (so a put that found the queue full has not completed), or the
\* queue had room and producer's puts appended exactly the items of the puts
\* it completed in that step.
C12_Backpressure ==
  /\ [](Len(queue) <= workers_num)
  /\ [][\/ /\ IsSuffix(queue', queue)
            /\ \/ ppc' = ppc /\ pidx' = pidx
               \/ ppc' = "cancelled"
         \/ /\ Len(queue) < workers_num
            /\ ppc \in {"walk", "put", "poison"}
            /\ LET before == PutsDone(ppc, pidx, paths')
                   after == PutsDone(ppc', pidx', paths')
               IN /\ after > before
                  /\ after <= Len(paths') + workers_num
                  /\ queue' = queue \o SubSeq(PutOrder', before + 1, after)]_vars

\* producer is suspended in a put because the queue is full again, after a
\* worker has taken an item and an earlier suspended put has completed
C12_Witness ==
  /\ Len(queue) = workers_num /\ ppc \in {"put", "poison"}
  /\ PutsDone(ppc, pidx, paths) > workers_num
  /\ \E w \in Workers : InAnalyze(w)
  /\ \E k \in 1..Len(queue) : queue[k] # None

\* the documents inside analyze: passed to analyze by a worker that has not
\* returned from the call
Inside == {p \in AllPaths : \E w \in Workers : Holds(w, p)}
\* the qpdf processes that may exist: started for the document of a worker
\* whose communicate has not returned (a cancelled worker may leave one)
Subprocesses ==
  {p \in spawned : \E w \in Workers :
     wpath[w] = p /\ wpc[w] \in {"communicate", "cancelled"}}

\* C13: at most workers_num workers, and at most workers_num documents, are
\* inside analyze at the same time, and at most workers_num qpdf processes
\* exist at the same time; every document qpdf was started for was passed
\* to analyze exactly once.
C13_BoundedParallelism ==
  /\ Cardinality({w \in Workers : InAnalyze(w)}) <= workers_num
  /\ Cardinality(Inside) <= workers_num
  /\ Cardinality(Subprocesses) <= workers_num
  /\ \A p \in spawned : calls[p] = 1

\* the only worker waits for qpdf while another document waits in the queue
C13_Witness ==
  /\ workers_num = 1 /\ Cardinality(Subprocesses) = 1
  /\ wpc[1] = "communicate"
  /\ \E k \in 1..Len(queue) : queue[k] # None

\* usesToSource => usesJS
SourceImpliesJS(types) == types.s = 1 => types.j = 1

\* C14: the record a worker has built from qpdf's output and is writing,
\* the text a save of this execution has put in a sidecar, and the record
\* folded in for a document qpdf was started for, all have s = 1 only if
\* j = 1.
C14_ToSourceImpliesJS ==
  /\ \A w \in Workers :
       wpc[w] \in {"save_open", "save_close"} => SourceImpliesJS(wtypes[w])
  /\ \A p \in saves :
       fs[types_path(p)].kind = "json" =>
         SourceImpliesJS(json_loads(fs[types_path(p)]))
  /\ \A p \in spawned :
       \A k \in 1..Len(recorded[p]) : SourceImpliesJS(recorded[p][k])

\* the record of a document that holds toSource and no JavaScript clue was
\* written and folded in, with s = 0
C14_Witness ==
  \E p \in saves :
    LET doc == DocAt(tree, p)
        text == fs[types_path(p)]
    IN /\ recorded[p] # <<>> /\ text = json_dumps(recorded[p][1])
       /\ doc.tosource /\ ~is_JS(doc)
       /\ json_loads(text).s = 0 /\ json_loads(text).j = 0

\* the record of a document in this execution: the one decoded from its
\* sidecar if the sidecar was read, else the one the classifier builds
RecordOf(p) ==
  IF \E l \in loads : l[1] = p /\ json_decodes(l[2])
  THEN json_loads((CHOOSE l \in loads : l[1] = p /\ json_decodes(l[2]))[2])
  ELSE LET doc == DocAt(tree, p) IN
       Classify([EmptyTypes EXCEPT !.e = IF is_encrypted(doc) THEN 1 ELSE 0],
                doc)
\* the documents of the execution whose decompression did not fail
Counted == {p \in Enqueued : ~QpdfFailed(p)}
\* the list holds exactly the counted paths that satisfy Flag, each once
ListIs(a_list, Flag(_)) ==
  \A p \in AllPaths :
    Count(a_list, p) = IF p \in Counted /\ Flag(RecordOf(p)) THEN 1 ELSE 0
\* the table counts, per token, the counted documents whose list holds it
TableCountsDocs(counter, field) ==
  \A tok \in Tokens :
    counter[tok] =
      Cardinality({p \in Counted : tok \in SeqToSet(RecordOf(p)[field])})
\* the table counts, per token, its occurrences in the counted records
TableCountsTokens(counter, field) ==
  \A tok \in Tokens :
    counter[tok] =
      SumOver([p \in Counted |-> Count(RecordOf(p)[field], tok)], Counted)

C16_WriteOnce ==
  /\ [](\A p \in saves :
          /\ p \in spawned
          /\ DocAt(tree, p).rc = 0 /\ DecodesCleanly(DocAt(tree, p)))
  /\ [][\A sc \in AllSidecars :
          /\ (fs[sc].kind = "missing" /\ fs'[sc].kind # "missing") =>
               \E w \in Workers :
                 wpc[w] = "save_open" /\ types_path(wpath[w]) = sc
          /\ fs[sc].kind = "json" => fs'[sc] = fs[sc]]_vars

\* a can be obtained from b by deleting items
RECURSIVE IsSubseq(_, _)
IsSubseq(a, b) ==
  IF a = <<>> THEN TRUE
  ELSE IF b = <<>> THEN FALSE
  ELSE IF Head(a) = Head(b) THEN IsSubseq(Tail(a), Tail(b))
  ELSE IsSubseq(a, Tail(b))
ListIdx == 1..Len(lists)

\* C17: a membership list changes only in the step in which a worker's
\* analyze finishes, by the append of that worker's path at the end; and
\* with one worker every membership list is a subsequence of producer's
\* list of paths, the order of the puts.
C17_CompletionOrder ==
  /\ [][\A k \in ListIdx :
          lists'[k] # lists[k] =>
            \E w \in Workers :
              /\ wpc[w] \in {"load_close", "save_close"}
              /\ lists'[k] = Append(lists[k], wpath[w])
              /\ wpath'[w] # wpath[w]]_vars
  /\ [](workers_num = 1 => \A k \in ListIdx : IsSubseq(lists[k], paths))

\* with two workers a list holds two paths in the reverse of the order in
\* which producer put them
C17_Witness ==
  /\ workers_num = 2
  /\ \E k \in ListIdx :
       /\ Len(lists[k]) = 2 /\ Len(paths) = 2
       /\ lists[k][1] = paths[2] /\ lists[k][2] = paths[1]

\* C18: every path of the toSource list is in the JS list, and the path of
\* a folded-in record that has j clear is in neither list, whatever s is.
C18_ToSourceWithinJS ==
  /\ SeqToSet(tosource) \subseteq SeqToSet(js)
  /\ \A p \in AllPaths :
       (recorded[p] # <<>> /\ \A k \in 1..Len(recorded[p]) : recorded[p][k].j = 0)
         => Count(tosource, p) = 0 /\ Count(js, p) = 0

\* a loaded record with s set and j clear was folded in, and so was a
\* record that put its path in both lists
C18_Witness ==
  \E p, q \in AllPaths :
    /\ recorded[p] # <<>> /\ recorded[p][1].s # 0 /\ recorded[p][1].j = 0
    /\ p \notin spawned
    /\ Count(tosource, q) = 1 /\ Count(js, q) = 1

\* C19: once a worker has dequeued a None and left its loop, producer has
\* put every path of its list, each path has been dequeued and passed to
\* analyze, and no path is in the queue.
C19_SentinelsLast ==
  (\E w \in Workers : wpc[w] = "done" \/ sentinels[w] > 0) =>
    /\ ppc \notin {"walk", "put"}
    /\ \A p \in Enqueued : calls[p] = 1
    /\ \A k \in 1..Len(queue) : queue[k] = None

\* one worker has left its loop while the other is still inside analyze
C19_Witness ==
  /\ workers_num = 2 /\ Len(paths) = 2
  /\ \E v, w \in Workers : wpc[v] = "done" /\ InAnalyze(w)

\* C20: every path that is in a membership list or has a record folded
\* into the tables has a sidecar file; and the record of a document qpdf
\* was started for is folded in by the step in which the worker leaves the
\* save of that document, after the sidecar was opened for writing and
\* closed.
C20_CachedBeforeCounted ==
  /\ [](\A p \in AllPaths :
          (InSomeList(p) \/ recorded[p] # <<>>) =>
            fs[types_path(p)].kind # "missing")
  /\ [][\A p \in spawned :
          recorded'[p] # recorded[p] =>
            /\ p \in saves
            /\ \E w \in Workers : wpath[w] = p /\ wpc[w] = "save_close"
            /\ fs'[types_path(p)].kind # "missing"]_vars

\* a document that missed the cache is in a list, and its sidecar holds the
\* record that was folded in
C20_Witness ==
  \E p \in spawned :
    /\ InSomeList(p) /\ recorded[p] # <<>>
    /\ fs[types_path(p)] = json_dumps(recorded[p][1])
    /\ \E w \in Workers : wpc[w] = "save_open"

====
